---- MODULE Spec2Model ----
(***************************************************************************)
(* A model of server.js: the Express middleware chain (CORS policy, body   *)
(* parsers, request logger, the five JSON routes, the static middleware,   *)
(* the SPA fallback, the 404 tail and the global error handler) and the    *)
(* process lifecycle (listen, gracefulShutdown on SIGTERM / SIGINT with    *)
(* its 10 s forced-exit timer, uncaughtException, unhandledRejection).     *)
(*                                                                         *)
(* Time is counted in ticks.  A timer is the number of ticks it still has  *)
(* to run.  The 'close' event of the server is emitted on the next     *)
(* tick after the listening handle is closed and the last connection has   *)
(* ended; nothing else runs between the two.                               *)
(***************************************************************************)
EXTENDS Integers, Sequences, FiniteSets

\* ------------------------------------------------------------------ bounds

\* Open connections the model follows at once.
MaxConns == 2
\* Termination signals delivered in one run.
MaxSignals == 2
\* Unhandled promise rejections in one run.
MaxRejections == 1
\* The resolution of the clock: the ticks that make up the 10000 ms of the
\* forced-shutdown timer.
TicksPerTimeout == 2

\* ------------------------------------------------------- program constants

\* An environment variable that is not set, a header that is not sent.
Undefined == "<undefined>"

\* JavaScript truthiness of a string-or-undefined value (!!v).
Truthy(v) == v # Undefined /\ v # ""

\* v || d
OrElse(v, d) == IF Truthy(v) THEN v ELSE d

\* The values of NODE_ENV the model draws from.
NodeEnvValues == {Undefined, "", "development", "production"}

\* The values of FRONTEND_URL the model draws from.
FrontendUrlValues == {Undefined, "https://front.example"}

\* The Origin header values the model draws from.
Origins == {Undefined, "", "https://front.example", "https://evil.example"}

Methods == {"GET", "HEAD", "POST", "OPTIONS"}

\* The paths of the five app.get routes.
RegisteredPaths == {"/", "/health", "/okok", "/api/config", "/api/test"}

Paths == RegisteredPaths \cup {"/dashboard"}

\* No value in a field of a response.
None == "-"

VARIABLES
  NODE_ENV,       \* process.env.NODE_ENV
  FRONTEND_URL,   \* process.env.FRONTEND_URL
  started,        \* the listen callback has run
  handleOpen,     \* the server still holds its listening handle
  connections,    \* open connections of the server
  closeListeners, \* the exit codes of the once('close') callbacks, in order
  closePending,   \* the emission of 'close' is queued for the next tick
  timers,         \* the forced-shutdown timers: ticks each has left
  exited,         \* process.exit has been called
  exitCode,       \* its argument
  exitCause,      \* history: what called process.exit
  faultSeen,      \* history: an uncaughtException or unhandledRejection came
  rejections,     \* history: the number of unhandledRejection events
  signalsSeen,    \* history: the number of signals delivered
  sigListening,   \* history: the first signal came in the listening state
  sinceFirst,     \* history: ticks since the first signal
  last            \* the last request and the response it got

vars ==
  <<NODE_ENV, FRONTEND_URL, started, handleOpen, connections, closeListeners,
    closePending, timers, exited, exitCode, exitCause, faultSeen, rejections,
    signalsSeen, sigListening, sinceFirst, last>>

envVars == <<NODE_ENV, FRONTEND_URL>>

processVars ==
  <<started, handleOpen, connections, closeListeners, closePending, timers,
    exited, exitCode, exitCause, faultSeen, rejections, signalsSeen,
    sigListening, sinceFirst>>

\* ------------------------------------------------------------ CORS policy

\* allowedOrigins: the four entries with the falsy ones filtered out.
allowedOrigins ==
  {o \in {"http://localhost:3000", "http://localhost:5000", FRONTEND_URL,
          "https://reaxapp.vercel.app/"} : Truthy(o)}

\* A policy with development as the permissive default when NODE_ENV is unset.
CorsOriginDevDefault(origin) ==
  \/ ~Truthy(origin)
  \/ origin \in allowedOrigins
  \/ OrElse(NODE_ENV, "development") = "development"

\* corsOptions.origin: TRUE for callback(null, true), FALSE for
\* callback(new Error('Not allowed by CORS')).
CorsOrigin(origin) ==
  IF ~Truthy(origin) THEN TRUE
  ELSE IF origin \in allowedOrigins THEN TRUE
  ELSE IF NODE_ENV = "development" THEN TRUE
  ELSE FALSE

\* --------------------------------------------------------------- responses

\* An error on its way to the error handler; status 0 stands for no status.
CorsError == [message |-> "Not allowed by CORS", status |-> 0]

\* What express.json() / express.urlencoded() raise on a body they cannot parse.
BodyParseError == [message |-> "Unexpected token } in JSON", status |-> 400]

\* What res.sendFile hands its callback when index.html cannot be read.
SendFileError == [message |-> "ENOENT: no such file or directory", status |-> 404]

NoError == [message |-> None, status |-> 0]

\* The environment reported without a default.
ReportedEnvironmentRaw == NODE_ENV

\* process.env.NODE_ENV || 'development', as GET / and GET /health report it.
ReportedEnvironment == OrElse(NODE_ENV, "development")

Response(stages, by, status, message, environment, err) ==
  [stages |-> stages, answeredBy |-> by, status |-> status,
   message |-> message, environment |-> environment, err |-> err]

\* An error handler that always sends the error's own message.
ErrorHandlerVerbose(stages, err) ==
  Response(Append(stages, "errorHandler"), "errorHandler",
           IF err.status # 0 THEN err.status ELSE 500,
           err.message, None, err)

\* The global error handler: err.status || 500, and the error's message in
\* development only.
ErrorHandler(stages, err) ==
  Response(Append(stages, "errorHandler"), "errorHandler",
           IF err.status # 0 THEN err.status ELSE 500,
           IF NODE_ENV = "development" THEN err.message
           ELSE "Something went wrong",
           None, err)

\* The 404 tail.
NotFoundHandler(stages, req) ==
  Response(Append(stages, "notFound"), "notFound", 404, "Not Found", None,
           NoError)

\* A fallback registered for every method (app.all / app.use).
SpaFallbackMatchesAll(method) == TRUE

\* app.get("*"): a GET route also answers HEAD.
SpaFallbackMatches(method) == method \in {"GET", "HEAD"}

\* The SPA fallback: res.sendFile(index.html), 500 'Server Error' on failure.
SpaFallback(stages, req) ==
  IF req.indexReadable
  THEN Response(Append(stages, "spaFallback"), "spaFallback", 200,
                "index.html", None, NoError)
  ELSE Response(Append(stages, "spaFallback"), "spaFallback", 500,
                "Server Error", None, SendFileError)

\* express.static serves GET and HEAD of an existing file and passes on
\* everything else.
StaticServes(req) == req.method \in {"GET", "HEAD"} /\ req.staticHit

\* The app.get routes: the method matches (HEAD too) and the path is one of
\* the five.
RouteMatches(req) ==
  req.method \in {"GET", "HEAD"} /\ req.path \in RegisteredPaths

\* The JSON route handlers; GET / and GET /health report the environment.
RouteHandler(stages, req) ==
  Response(Append(stages, "route"), req.path, 200, "OK",
           IF req.path \in {"/", "/health"} THEN ReportedEnvironment ELSE None,
           NoError)

\* A chain with express.static registered ahead of the routes.
DispatchStaticFirst(stages, req) ==
  IF StaticServes(req)
  THEN Response(stages \o <<"static">>, "static", 200, "asset", None, NoError)
  ELSE IF RouteMatches(req) THEN RouteHandler(Append(stages, "static"), req)
  ELSE IF SpaFallbackMatches(req.method)
  THEN SpaFallback(Append(stages, "static"), req)
  ELSE NotFoundHandler(Append(stages, "static"), req)

\* The chain from the routes on, reached through the logger's next().
Dispatch(stages, req) ==
  IF RouteMatches(req) THEN RouteHandler(stages, req)
  ELSE IF StaticServes(req)
  THEN Response(stages \o <<"static">>, "static", 200, "asset", None, NoError)
  ELSE IF SpaFallbackMatches(req.method)
  THEN SpaFallback(Append(stages, "static"), req)
  ELSE NotFoundHandler(Append(stages, "static"), req)

\* A chain with the logger registered first, ahead of cors.
MiddlewareLoggerFirst(req) ==
  IF ~CorsOrigin(req.origin) THEN ErrorHandler(<<"logger", "cors">>, CorsError)
  ELSE IF req.method = "OPTIONS"
  THEN Response(<<"logger", "cors">>, "cors", 200, None, None, NoError)
  ELSE IF req.badBody THEN ErrorHandler(<<"logger", "cors", "json">>, BodyParseError)
  ELSE Dispatch(<<"logger", "cors", "json", "urlencoded">>, req)

\* The middleware in registration order: cors (which answers an OPTIONS
\* preflight itself and hands a rejected origin to the error handler), the
\* body parsers, the logger, then the routes.
Middleware(req) ==
  IF ~CorsOrigin(req.origin) THEN ErrorHandler(<<"cors">>, CorsError)
  ELSE IF req.method = "OPTIONS"
  THEN Response(<<"cors">>, "cors", 200, None, None, NoError)
  ELSE IF req.badBody THEN ErrorHandler(<<"cors", "json">>, BodyParseError)
  ELSE Dispatch(<<"cors", "json", "urlencoded", "logger">>, req)

\* ---------------------------------------------------------------- requests

Requests ==
  [method : Methods, path : Paths, origin : Origins, badBody : BOOLEAN,
   staticHit : BOOLEAN, indexReadable : BOOLEAN]

\* One request of each outcome, for the runs that follow the lifecycle.
SampleRequests ==
  {r \in Requests :
     /\ r.path = "/dashboard" /\ ~r.staticHit
     /\ \/ /\ r.method = "GET" /\ r.origin = Undefined /\ ~r.badBody
        \/ /\ r.method = "GET" /\ r.origin = "https://evil.example"
           /\ ~r.badBody /\ r.indexReadable
        \/ /\ r.method = "POST" /\ r.origin = Undefined /\ r.indexReadable}

NoRequest ==
  [method |-> None, path |-> None, origin |-> Undefined, badBody |-> FALSE,
   staticHit |-> FALSE, indexReadable |-> FALSE]

NoResponse == Response(<<>>, None, 0, None, None, NoError)

\* ----------------------------------------------------------- the lifecycle

\* The four states of the lifecycle controller.
Lifecycle ==
  IF exited THEN "terminated"
  ELSE IF ~started THEN "starting"
  ELSE IF handleOpen THEN "listening"
  ELSE "draining"

\* The event loop is free to run an event: the process lives, the server
\* has been started, and no next-tick callback is queued.
Idle == started /\ ~exited /\ ~closePending

Init ==
  /\ NODE_ENV \in NodeEnvValues
  /\ FRONTEND_URL \in FrontendUrlValues
  /\ started = FALSE
  /\ handleOpen = TRUE
  /\ connections = 0
  /\ closeListeners = <<>>
  /\ closePending = FALSE
  /\ timers = <<>>
  /\ exited = FALSE
  /\ exitCode = 0
  /\ exitCause = None
  /\ faultSeen = FALSE
  /\ rejections = 0
  /\ signalsSeen = 0
  /\ sigListening = FALSE
  /\ sinceFirst = 0
  /\ last = [req |-> NoRequest, res |-> NoResponse]

\* app.listen's callback: the socket is bound, the banner is printed.
StartListening ==
  /\ ~started /\ ~exited
  /\ started' = TRUE
  /\ UNCHANGED <<envVars, handleOpen, connections, closeListeners,
                 closePending, timers, exited, exitCode, exitCause, faultSeen,
                 rejections, signalsSeen, sigListening, sinceFirst, last>>

\* A client connects; a server that has closed its handle accepts nobody.
OpenConnection ==
  /\ Idle /\ handleOpen
  /\ connections < MaxConns
  /\ connections' = connections + 1
  /\ UNCHANGED <<envVars, started, handleOpen, closeListeners, closePending,
                 timers, exited, exitCode, exitCause, faultSeen, rejections,
                 signalsSeen, sigListening, sinceFirst, last>>

\* A connection ends; the last one of a closed server queues 'close'.
CloseConnection ==
  /\ Idle
  /\ connections > 0
  /\ connections' = connections - 1
  /\ closePending' = (~handleOpen /\ connections' = 0)
  /\ UNCHANGED <<envVars, started, handleOpen, closeListeners, timers, exited,
                 exitCode, exitCause, faultSeen, rejections, signalsSeen,
                 sigListening, sinceFirst, last>>

\* A request handling that ends the process when the request fails.
HandleRequestFatal(reqs) ==
  /\ Idle
  /\ connections > 0
  /\ \E req \in reqs :
       /\ last' = [req |-> req, res |-> Middleware(req)]
       /\ exited' = (last'.res.status >= 400)
       /\ exitCode' = IF exited' THEN 1 ELSE exitCode
  /\ UNCHANGED <<envVars, started, handleOpen, connections, closeListeners,
                 closePending, timers, exitCause, faultSeen, rejections,
                 signalsSeen, sigListening, sinceFirst>>

\* A request arrives on an open connection and runs through the chain; no
\* handler of the chain touches the server or the process.
HandleRequest(reqs) ==
  /\ Idle
  /\ connections > 0
  /\ \E req \in reqs : last' = [req |-> req, res |-> Middleware(req)]
  /\ UNCHANGED <<envVars, processVars>>

\* server.close(callback): the callback waits for 'close' (with an error
\* argument nobody reads when the server was closed already), the handle is
\* closed, and 'close' is queued when no connection is left.
ServerClose(code) ==
  /\ closeListeners' = Append(closeListeners, code)
  /\ handleOpen' = FALSE
  /\ closePending' = (connections = 0)

\* A shutdown that never arms the forced exit.
ArmTimerNone(ts) == ts

\* A shutdown that restarts the countdown on every signal.
ArmTimerRestart(ts) == <<TicksPerTimeout>>

\* setTimeout(forced exit, 10000): one more timer, none is ever cleared.
ArmTimer(ts) == Append(ts, TicksPerTimeout)

\* gracefulShutdown(signal), run for SIGTERM and for SIGINT; the signal's
\* name goes to the console only.
gracefulShutdown(signal) ==
  /\ Idle
  /\ signalsSeen < MaxSignals
  /\ ServerClose(0)
  /\ timers' = ArmTimer(timers)
  /\ signalsSeen' = signalsSeen + 1
  /\ sigListening' = IF signalsSeen = 0 THEN handleOpen ELSE sigListening
  /\ UNCHANGED <<envVars, started, connections, exited, exitCode, exitCause,
                 faultSeen, rejections, sinceFirst, last>>

\* The queued 'close' event: its listeners run in the order they were
\* added, and the first one calls process.exit.
EmitClose ==
  /\ started /\ ~exited /\ closePending
  /\ closeListeners # <<>>
  /\ exited' = TRUE
  /\ exitCode' = Head(closeListeners)
  /\ exitCause' = "close"
  /\ closePending' = FALSE
  /\ UNCHANGED <<envVars, started, handleOpen, connections, closeListeners,
                 timers, faultSeen, rejections, signalsSeen, sigListening,
                 sinceFirst, last>>

\* A tick passes and no timer is due.
Tick ==
  /\ Idle
  /\ timers # <<>>
  /\ \A i \in 1..Len(timers) : timers[i] > 0
  /\ timers' = [i \in 1..Len(timers) |-> timers[i] - 1]
  /\ sinceFirst' = sinceFirst + 1
  /\ UNCHANGED <<envVars, started, handleOpen, connections, closeListeners,
                 closePending, exited, exitCode, exitCause, faultSeen,
                 rejections, signalsSeen, sigListening, last>>

\* A forced-shutdown timer is due: process.exit(1).
TimerFire ==
  /\ Idle
  /\ \E i \in 1..Len(timers) : timers[i] = 0
  /\ exited' = TRUE
  /\ exitCode' = 1
  /\ exitCause' = "timer"
  /\ UNCHANGED <<envVars, started, handleOpen, connections, closeListeners,
                 closePending, timers, faultSeen, rejections, signalsSeen,
                 sigListening, sinceFirst, last>>

\* process.on('uncaughtException'): log and process.exit(1).
UncaughtException ==
  /\ Idle
  /\ exited' = TRUE
  /\ exitCode' = 1
  /\ exitCause' = "uncaughtException"
  /\ faultSeen' = TRUE
  /\ UNCHANGED <<envVars, started, handleOpen, connections, closeListeners,
                 closePending, timers, rejections, signalsSeen, sigListening,
                 sinceFirst, last>>

\* process.on('unhandledRejection'): log and server.close(() => exit(1)).
UnhandledRejection ==
  /\ Idle
  /\ rejections < MaxRejections
  /\ ServerClose(1)
  /\ rejections' = rejections + 1
  /\ faultSeen' = TRUE
  /\ UNCHANGED <<envVars, started, connections, timers, exited, exitCode,
                 exitCause, signalsSeen, sigListening, sinceFirst, last>>

\* The process with its lifecycle events and a request of each outcome.
Next ==
  \/ StartListening
  \/ OpenConnection
  \/ CloseConnection
  \/ HandleRequest(SampleRequests)
  \/ \E signal \in {"SIGTERM", "SIGINT"} : gracefulShutdown(signal)
  \/ EmitClose
  \/ Tick
  \/ TimerFire
  \/ UncaughtException
  \/ UnhandledRejection

Spec == Init /\ [][Next]_vars

\* Timers run out and fire, and a queued next-tick callback runs.
FairSpec ==
  Spec /\ WF_vars(Tick) /\ WF_vars(TimerFire) /\ WF_vars(EmitClose)

\* The listening server under every request of the bounded sets.
ReqNext ==
  \/ StartListening
  \/ OpenConnection
  \/ CloseConnection
  \/ HandleRequest(Requests)

ReqSpec == Init /\ [][ReqNext]_vars

\* ------------------------------------------------- what the claims speak of

\* A request has been served.
Served == last.req # NoRequest

\* The last request was rejected by the CORS policy.
Rejected == last.res.err = CorsError

\* The last request went through cors and the body parsers to the logger
\* and the routes behind it.
ReachedRouting ==
  /\ CorsOrigin(last.req.origin)
  /\ last.req.method # "OPTIONS"
  /\ ~last.req.badBody

\* The number of lines the request logger wrote for the last request.
LoggerLines ==
  Cardinality({i \in DOMAIN last.res.stages : last.res.stages[i] = "logger"})

\* The logger ran before every stage that answers a request.
LoggerFirst ==
  \A i, j \in DOMAIN last.res.stages :
    (/\ last.res.stages[i] = "logger"
     /\ last.res.stages[j] \in {"route", "static", "spaFallback", "notFound"})
    => i < j

\* The CORS evaluator lets an origin outside the allowed set through.
Permissive == CorsOrigin("https://evil.example")

\* The global error handler sends the error's own message.
Literal == ErrorHandler(<<>>, CorsError).message = CorsError.message

\* ------------------------------------------------------------------ C1

\* C1, as stated: a request is let through by the CORS evaluator exactly
\* when it has no Origin header, or its origin is in the allowed set, or
\* NODE_ENV is 'development'; otherwise it is rejected.
C1_AllowedIffAbsentListedOrDev ==
  Served =>
    (~Rejected <=> \/ last.req.origin = Undefined
                   \/ last.req.origin \in allowedOrigins
                   \/ NODE_ENV = "development")

\* C1, amended: a request is let through exactly when it has no Origin
\* header or an empty one, or its origin is in the allowed set, or NODE_ENV
\* is 'development'; otherwise it is rejected with the policy error, which
\* includes every case where NODE_ENV is unset.
C1_AllowedIffFalsyListedOrDev ==
  Served =>
    /\ ~Rejected <=> \/ last.req.origin \in {Undefined, ""}
                     \/ last.req.origin \in allowedOrigins
                     \/ NODE_ENV = "development"
    /\ Rejected => /\ last.res.answeredBy = "errorHandler"
                   /\ last.res.err.message = "Not allowed by CORS"

C1_Witness ==
  /\ Served /\ Rejected
  /\ NODE_ENV = Undefined
  /\ last.req.origin = "https://evil.example"

\* ------------------------------------------------------------------ C5

\* C5, as stated: a request of any method that reaches the routes, whose
\* path is no named route and no static file, is answered by the SPA
\* fallback and never by the 404 handler.
C5_NotFoundUnreachable ==
  (/\ Served /\ ReachedRouting
   /\ last.req.path \notin RegisteredPaths
   /\ ~last.req.staticHit)
  => /\ last.res.answeredBy = "spaFallback"
     /\ last.res.answeredBy # "notFound"

\* C5, amended: the SPA fallback answers the GET and HEAD requests that
\* reach the routes and match no named route and no static file; the 404
\* handler answers exactly the requests of other methods that reach the
\* routes (an OPTIONS request is answered by cors and never reaches them).
C5_NotFoundOnlyForNonGet ==
  Served =>
    /\ (/\ ReachedRouting
        /\ last.req.method \in {"GET", "HEAD"}
        /\ last.req.path \notin RegisteredPaths
        /\ ~last.req.staticHit)
       => last.res.answeredBy = "spaFallback"
    /\ (last.res.answeredBy = "notFound" /\ last.res.status = 404)
       <=> (ReachedRouting /\ last.req.method \notin {"GET", "HEAD"})

C5_Witness ==
  /\ Served
  /\ last.req.method = "POST"
  /\ last.res.answeredBy = "notFound"
  /\ last.res.status = 404

\* ------------------------------------------------------------------ C6

\* C6, as stated: the logger writes exactly one line for every request,
\* before any handler answers, also for a request the CORS policy rejects
\* and for an OPTIONS preflight (read here for requests whose body parses).
C6_OneLinePerRequest ==
  (Served /\ ~last.req.badBody) => (LoggerLines = 1 /\ LoggerFirst)

\* C6, amended: the logger writes exactly one line, before any handler
\* answers, for every request that cors and the body parsers pass on; it
\* writes none for a request the CORS policy rejects, for an OPTIONS
\* preflight, and for a request whose body does not parse.
C6_OneLinePerRoutedRequest ==
  Served =>
    /\ LoggerLines = (IF ReachedRouting THEN 1 ELSE 0)
    /\ LoggerFirst
    /\ ReachedRouting =>
         last.res.answeredBy \in
           RegisteredPaths \cup {"static", "spaFallback", "notFound"}

C6_Witness ==
  /\ Served
  /\ LoggerLines = 1
  /\ last.res.answeredBy = "/health"
  /\ last.res.stages = <<"cors", "json", "urlencoded", "logger", "route">>

\* ------------------------------------------------------------------ C7

\* C7: outside development no body of a failed request carries the error's
\* message: the error handler sends 'Something went wrong', the fallback
\* 'Server Error'; the error's message goes out in development only; the
\* error handler's status is the error's status, or 500 when it has none.
C7_NoLeakOutsideDevelopment ==
  (Served /\ last.res.err # NoError) =>
    /\ last.res.status >= 400
    /\ NODE_ENV # "development" =>
         /\ last.res.message # last.res.err.message
         /\ last.res.answeredBy = "errorHandler"
              => last.res.message = "Something went wrong"
    /\ last.res.answeredBy = "spaFallback"
         => (last.res.message = "Server Error" /\ last.res.status = 500)
    /\ last.res.message = last.res.err.message
         => (NODE_ENV = "development" /\ last.res.answeredBy = "errorHandler")
    /\ (last.res.answeredBy = "errorHandler" /\ NODE_ENV = "development")
         => last.res.message = last.res.err.message
    /\ Rejected => last.res.status = 500
    /\ last.res.err = BodyParseError => last.res.status = 400

C7_Witness ==
  /\ Served /\ Rejected
  /\ NODE_ENV = "production"
  /\ last.res.message = "Something went wrong"
  /\ last.res.status = 500

\* ------------------------------------------------------------------ C9

\* C9, as stated: a GET that passes the CORS policy for an unregistered
\* path with no static asset gets index.html with 200 when it is readable
\* and 500 'Server Error' when it is not; a GET for a registered path is
\* answered by that route's handler, never by static or the fallback.
C9_GetRouting ==
  (Served /\ last.req.method = "GET" /\ CorsOrigin(last.req.origin)) =>
    /\ (last.req.path \notin RegisteredPaths /\ ~last.req.staticHit) =>
         /\ last.res.answeredBy = "spaFallback"
         /\ last.req.indexReadable
              => (last.res.status = 200 /\ last.res.message = "index.html")
         /\ ~last.req.indexReadable
              => (last.res.status = 500 /\ last.res.message = "Server Error")
    /\ last.req.path \in RegisteredPaths =>
         /\ last.res.answeredBy = last.req.path
         /\ last.res.status = 200

\* C9, amended: the same, for a GET that passes the CORS policy and the
\* body parsers (a GET with a body that does not parse is answered 400 by
\* the error handler, whatever its path).
C9_GetRoutingAfterParsers ==
  (Served /\ last.req.method = "GET" /\ CorsOrigin(last.req.origin)) =>
    /\ ~last.req.badBody =>
         /\ (last.req.path \notin RegisteredPaths /\ ~last.req.staticHit) =>
              /\ last.res.answeredBy = "spaFallback"
              /\ last.req.indexReadable
                   => (last.res.status = 200 /\ last.res.message = "index.html")
              /\ ~last.req.indexReadable
                   => (last.res.status = 500 /\ last.res.message = "Server Error")
         /\ last.req.path \in RegisteredPaths =>
              /\ last.res.answeredBy = last.req.path
              /\ last.res.status = 200
              /\ \A i \in DOMAIN last.res.stages :
                   last.res.stages[i] \notin {"static", "spaFallback"}
    /\ last.req.badBody =>
         (last.res.answeredBy = "errorHandler" /\ last.res.status = 400)

C9_Witness ==
  /\ Served
  /\ last.req.method = "GET"
  /\ last.req.path = "/dashboard"
  /\ ~last.req.indexReadable
  /\ last.res.answeredBy = "spaFallback"
  /\ last.res.status = 500

\* ------------------------------------------------------------------ C10

\* C10, as stated: for every NODE_ENV, the environment GET / and GET /health
\* report is 'development' exactly when the CORS evaluator is permissive and
\* exactly when the error handler sends the error's message.
C10_OneEnvironmentName ==
  (Served /\ last.res.answeredBy \in {"/", "/health"}) =>
    /\ (last.res.environment = "development") <=> Permissive
    /\ (last.res.environment = "development") <=> Literal

\* C10, amended: the CORS evaluator is permissive exactly when the error
\* handler sends the error's message, namely when NODE_ENV is 'development';
\* GET / and GET /health report NODE_ENV when it is set and not empty, and
\* 'development' when it is unset or empty, where the CORS evaluator is
\* strict and the error handler sends the generic message.
C10_EnvironmentNameSplit ==
  /\ Permissive <=> Literal
  /\ Permissive <=> (NODE_ENV = "development")
  /\ (Served /\ last.res.answeredBy \in {"/", "/health"}) =>
       /\ Truthy(NODE_ENV) => last.res.environment = NODE_ENV
       /\ ~Truthy(NODE_ENV) =>
            /\ last.res.environment = "development"
            /\ ~Permissive
            /\ ~Literal

C10_Witness ==
  /\ Served
  /\ last.res.answeredBy = "/health"
  /\ NODE_ENV = Undefined
  /\ last.res.environment = "development"
  /\ ~Permissive

\* ------------------------------------------------------------------ C2

\* C2: once a signal has come in the listening state the process ends: by
\* the 'close' event with exit code 0, which needs every connection closed,
\* or by the timer, a full timeout after the first signal, with exit code 1
\* and a connection still open; exit code 0 never comes with a connection
\* open.
C2_SignalLeadsToExit ==
  /\ []((exited /\ exitCode = 0) => connections = 0)
  /\ []((sigListening /\ exitCause = "close")
          => (exitCode = 0 /\ connections = 0))
  /\ []((sigListening /\ exitCause = "timer")
          => /\ exitCode = 1
             /\ connections > 0
             /\ sinceFirst = TicksPerTimeout)
  /\ (sigListening ~> exited)

C2_Witness ==
  /\ sigListening
  /\ signalsSeen = 1
  /\ exited
  /\ exitCause = "timer"
  /\ exitCode = 1
  /\ connections > 0

\* ------------------------------------------------------------------ C3

\* C3: a second signal during the drain of the first does not end the
\* process and leaves the first timer and the first 'close' callback in
\* place; the process then ends as with one signal: with 0 when the
\* connections drain within the timeout of the first signal, with 1 exactly
\* a timeout after the first signal otherwise, never later.
C3_SecondSignalIdempotent ==
  /\ [][(signalsSeen > 0 /\ signalsSeen' > signalsSeen)
          => /\ ~exited'
             /\ ~closePending'
             /\ connections' = connections
             /\ Head(timers') = Head(timers)
             /\ Head(closeListeners') = Head(closeListeners)]_vars
  /\ []((sigListening /\ signalsSeen >= 2 /\ ~exited)
          => (timers # <<>> /\ sinceFirst + Head(timers) = TicksPerTimeout))
  /\ []((sigListening /\ signalsSeen >= 2 /\ exitCause = "close")
          => (exitCode = 0 /\ connections = 0
              /\ sinceFirst <= TicksPerTimeout))
  /\ []((sigListening /\ signalsSeen >= 2 /\ exitCause = "timer")
          => (exitCode = 1 /\ connections > 0
              /\ sinceFirst = TicksPerTimeout))

C3_Witness ==
  /\ sigListening
  /\ signalsSeen = 2
  /\ exited
  /\ exitCause = "timer"
  /\ sinceFirst = TicksPerTimeout

\* ------------------------------------------------------------------ C4

\* C4, as stated: a process that has seen an uncaught exception or an
\* unhandled rejection ends with exit code 1.
C4_FaultExitsWithOne == (faultSeen /\ exited) => exitCode = 1

\* ------------------------------------------------------------------ C8

\* C8: serving a request, failed or not, changes nothing of the server or
\* the process, and a listening process with an open connection can serve
\* the next one; the process leaves the listening state only by a signal or
\* a fault.
C8_RequestsLeaveLifecycle ==
  /\ [][(last' # last)
          => /\ Lifecycle' = Lifecycle
             /\ exited' = exited
             /\ handleOpen' = handleOpen
             /\ connections' = connections
             /\ closeListeners' = closeListeners
             /\ timers' = timers]_vars
  /\ [][(Lifecycle = "listening" /\ Lifecycle' # "listening")
          => \/ signalsSeen' > signalsSeen
             \/ (~faultSeen /\ faultSeen')]_vars
  /\ []((Lifecycle = "listening" /\ connections > 0)
          => ENABLED HandleRequest(SampleRequests))

C8_Witness ==
  /\ Served
  /\ last.res.status = 404
  /\ Lifecycle = "listening"
  /\ connections > 0

====
